---- MODULE Spec2Model ----
(***************************************************************************)
(* A model of emission_factors.py: the transfer of the EPA Proposed        *)
(* Determination tailpipe emission factors into the SAFE NPRM gasoline and *)
(* diesel tables.  main() is one straight-line procedure; each of its      *)
(* stages is an action and pc is the position of the run.  The pandas      *)
(* operations main() calls (boolean row selection, column assignment with  *)
(* index alignment, str.split(expand=True), to_numeric, join, append) are  *)
(* operators on a column-wise DataFrame record                             *)
(*     [index : Seq(label), columns : Seq(name), data : name -> Seq(cell)] *)
(***************************************************************************)
EXTENDS Integers, Sequences, FiniteSets, TLC

VARIABLES
    pc,                  \* position of main()
    wb,                  \* the three input sheets as they are on disk; the
                         \* two SAFE NPRM sheets list the same model years
    disk,                \* the outputs folder and its two csv files
    gas_safe_nprm,
    diesel_safe_nprm,
    emission_factors_pd,
    pd_minMY,
    metrics,
    gas_safe,
    diesel_safe

vars == <<pc, wb, disk, gas_safe_nprm, diesel_safe_nprm, emission_factors_pd,
          pd_minMY, metrics, gas_safe, diesel_safe>>

(* Bounds of the model. *)
MaxRows == 2        \* rows of each SAFE NPRM sheet: 0..MaxRows
MaxEFRows == 2      \* rows of the Vehicle_EFs sheet: 1..MaxEFRows

(* np.nan.  Every number the sheets hold is >= 0, so -1 stands apart. *)
NaN == -1

(* The object str.split(expand=True) puts where a row has fewer parts. *)
None == <<"None">>

header_dict ==
    << <<"VOC_gpm_Car", "LDV_VOC">>,
       <<"CO_gpm_Car", "LDV_CO">>,
       <<"NOx_gpm_Car", "LDV_NOx">>,
       <<"PM2.5_gpm_Car", "LDV_PM2.5">>,
       <<"Benzene_gpm_Car", "LDV_Benzene">>,
       <<"1,3 Butadiene_gpm_Car", "LDV_Butadiene">>,
       <<"Formaldehyde_gpm_Car", "LDV_Formaldehyde">>,
       <<"Acetaldehyde_gpm_Car", "LDV_Acetaldehyde">>,
       <<"Acrolein_gpm_Car", "LDV_Acrolein">>,
       <<"CH4_gpm_Car", "LDV_CH4">>,
       <<"N20_gpm_Car", "LDV_N2O">>,
       <<"SO2_gpG_Car", "LDV_SO2">>,
       <<"VOC_gpm_Truck", "LDT1/2a_VOC">>,
       <<"CO_gpm_Truck", "LDT1/2a_CO">>,
       <<"NOx_gpm_Truck", "LDT1/2a_NOx">>,
       <<"PM2.5_gpm_Truck", "LDT1/2a_PM2.5">>,
       <<"Benzene_gpm_Truck", "LDT1/2a_Benzene">>,
       <<"1,3 Butadiene_gpm_Truck", "LDT1/2a_Butadiene">>,
       <<"Formaldehyde_gpm_Truck", "LDT1/2a_Formaldehyde">>,
       <<"Acetaldehyde_gpm_Truck", "LDT1/2a_Acetaldehyde">>,
       <<"Acrolein_gpm_Truck", "LDT1/2a_Acrolein">>,
       <<"CH4_gpm_Truck", "LDT1/2a_CH4">>,
       <<"N20_gpm_Truck", "LDT1/2a_N2O">>,
       <<"SO2_gpG_Truck", "LDT1/2a_SO2">> >>

safe_nprm_set_to_zero ==
    <<"LDT2b/3_CO", "LDT2b/3_VOC", "LDT2b/3_NOx", "LDT2b/3_SO2", "LDT2b/3_PM2.5",
      "LDT2b/3_CO2", "LDT2b/3_CH4", "LDT2b/3_N2O",
      "LDT2b/3_Acetaldehyde", "LDT2b/3_Acrolein", "LDT2b/3_Benzene",
      "LDT2b/3_Butadiene", "LDT2b/3_Formaldehyde",
      "LDT2b/3_DPM10", "LDT2b/3_MTBE">>

---------------------------------------------------------------------------
(* pandas: the DataFrame operations main() uses. *)

Elems(s) == {s[i] : i \in 1..Len(s)}
NaNs(n) == [i \in 1..n |-> NaN]
RangeIndex(n) == [i \in 1..n |-> i - 1]
ColSet(df) == Elems(df.columns)
NRows(df) == Len(df.index)
EmptyFrame == [index |-> <<>>, columns |-> <<>>, data |-> <<>>]

RECURSIVE TruePositions(_, _)
TruePositions(mask, i) ==
    IF i > Len(mask) THEN <<>>
    ELSE (IF mask[i] THEN <<i>> ELSE <<>>) \o TruePositions(mask, i + 1)

(* df.loc[mask]: the rows where mask is True, labels and order kept. *)
Loc(df, mask) ==
    LET pos == TruePositions(mask, 1) IN
    [index   |-> [k \in 1..Len(pos) |-> df.index[pos[k]]],
     columns |-> df.columns,
     data    |-> [c \in ColSet(df) |-> [k \in 1..Len(pos) |-> df.data[c][pos[k]]]]]

(* Comparisons of a column with a scalar; any comparison with NaN is False. *)
Ge(a, b) == a # NaN /\ b # NaN /\ a >= b
Lt(a, b) == a # NaN /\ b # NaN /\ a < b

(* df[c] as a Series. *)
GetItem(df, c) == [index |-> df.index, values |-> df.data[c]]

(* Series.reindex(index): the value under each label, NaN where absent. *)
Reindex(s, index) ==
    [i \in 1..Len(index) |->
        IF \E j \in 1..Len(s.index) : s.index[j] = index[i]
        THEN s.values[CHOOSE j \in 1..Len(s.index) : s.index[j] = index[i]]
        ELSE NaN]

WithColumn(df, c, vals) ==
    [index   |-> df.index,
     columns |-> IF c \in ColSet(df) THEN df.columns ELSE Append(df.columns, c),
     data    |-> [x \in ColSet(df) \cup {c} |-> IF x = c THEN vals ELSE df.data[x]]]

(* DataFrame._ensure_valid_index: a frame with no rows that is assigned a  *)
(* non-empty Series takes the index of the Series, its columns all NaN.    *)
EnsureValidIndex(df, s) ==
    IF NRows(df) = 0 /\ Len(s.index) > 0
    THEN [index   |-> s.index,
          columns |-> df.columns,
          data    |-> [x \in ColSet(df) |-> NaNs(Len(s.index))]]
    ELSE df

(* df[c] = s for a Series s: aligned on the index labels of df. *)
SetItemSeries(df, c, s) ==
    LET base == EnsureValidIndex(df, s) IN
    WithColumn(base, c, Reindex(s, base.index))

(* df[c] = v for a scalar v: the whole column. *)
SetItemScalar(df, c, v) == WithColumn(df, c, [i \in 1..NRows(df) |-> v])

(* df.rename(columns={key: value}); a key that is no column is ignored. *)
Rename(df, key, value) ==
    IF key \notin ColSet(df) THEN df
    ELSE [index   |-> df.index,
          columns |-> [i \in 1..Len(df.columns) |->
                          IF df.columns[i] = key THEN value ELSE df.columns[i]],
          data    |-> [x \in (ColSet(df) \ {key}) \cup {value} |->
                          IF x = value THEN df.data[key] ELSE df.data[x]]]

(* a.append(b): the rows of a, then the rows of b, over the union of the   *)
(* columns (those of a first); a cell of a column a frame lacks is NaN.    *)
AppendFrame(a, b) ==
    LET extra == SelectSeq(b.columns, LAMBDA c : c \notin ColSet(a))
        col(df, c) == IF c \in ColSet(df) THEN df.data[c] ELSE NaNs(NRows(df))
    IN [index   |-> a.index \o b.index,
        columns |-> a.columns \o extra,
        data    |-> [c \in ColSet(a) \cup ColSet(b) |-> col(a, c) \o col(b, c)]]

(* left.join(right) on equal indexes, then drop(labels=c, axis=1). *)
Join(left, right) ==
    [index   |-> left.index,
     columns |-> left.columns \o right.columns,
     data    |-> [c \in ColSet(left) \cup ColSet(right) |->
                     IF c \in ColSet(left) THEN left.data[c] ELSE right.data[c]]]

Drop(df, c) ==
    [index   |-> df.index,
     columns |-> SelectSeq(df.columns, LAMBDA x : x # c),
     data    |-> [x \in ColSet(df) \ {c} |-> df.data[x]]]

---------------------------------------------------------------------------
(* Strings are sequences of one-character strings. *)

Digits == {"0", "1", "2", "3", "4", "5", "6", "7", "8", "9"}
DigitVal == ("0" :> 0) @@ ("1" :> 1) @@ ("2" :> 2) @@ ("3" :> 3) @@ ("4" :> 4) @@
            ("5" :> 5) @@ ("6" :> 6) @@ ("7" :> 7) @@ ("8" :> 8) @@ ("9" :> 9)

(* str.split('-'): the parts between the separators, empty parts kept. *)
RECURSIVE SplitFrom(_, _)
SplitFrom(s, part) ==
    IF s = <<>> THEN <<part>>
    ELSE IF Head(s) = "-" THEN <<part>> \o SplitFrom(Tail(s), <<>>)
    ELSE SplitFrom(Tail(s), Append(part, Head(s)))

Split(s) == SplitFrom(s, <<>>)

SeqMax(ns) == CHOOSE m \in Elems(ns) : \A x \in Elems(ns) : x <= m

(* The labels 0, 1, 2, ... of the columns that expand=True makes. *)
PartLabel == <<"0", "1", "2", "3", "4">>

(* Series.str.split('-', expand=True): one column per part, as many        *)
(* columns as the longest split has parts, None where a row has fewer.     *)
StrSplitExpand(s) ==
    LET parts == [i \in 1..Len(s.values) |-> Split(s.values[i])]
        width == SeqMax([i \in 1..Len(parts) |-> Len(parts[i])])
    IN [index   |-> s.index,
        columns |-> [j \in 1..width |-> PartLabel[j]],
        data    |-> [c \in {PartLabel[j] : j \in 1..width} |->
                        LET j == CHOOSE j \in 1..width : PartLabel[j] = c IN
                        [i \in 1..Len(parts) |->
                            IF j <= Len(parts[i]) THEN parts[i][j] ELSE None]]]

(* pd.to_numeric of one object: None and the empty string become NaN, a    *)
(* string of digits its value; anything else raises ValueError.            *)
Parseable(x) == x = None \/ \A i \in 1..Len(x) : x[i] \in Digits

RECURSIVE Decimal(_)
Decimal(x) ==
    IF x = <<>> THEN 0
    ELSE Decimal(SubSeq(x, 1, Len(x) - 1)) * 10 + DigitVal[x[Len(x)]]

ToNumeric(x) == IF x = None \/ x = <<>> THEN NaN ELSE Decimal(x)

Plus1(v) == IF v = NaN THEN NaN ELSE v + 1

(* Series.min(): NaN is skipped; NaN when nothing is left. *)
SeriesMin(vals) ==
    LET nums == {vals[i] : i \in 1..Len(vals)} \ {NaN} IN
    IF nums = {} THEN NaN ELSE CHOOSE m \in nums : \A x \in nums : m <= x

---------------------------------------------------------------------------
(* The stages of main(). *)

(* line 71: the EPA column names become the NHTSA ones. *)
RECURSIVE RenameFrom(_, _)
RenameFrom(df, i) ==
    IF i > Len(header_dict) THEN df
    ELSE RenameFrom(Rename(df, header_dict[i][1], header_dict[i][2]), i + 1)

RenameMetrics(df) == RenameFrom(df, 1)

(* lines 74-76 *)
SplitID(ef) ==
    Rename(Rename(StrSplitExpand(GetItem(ef, "ID")), "0", "ModelYear"), "1", "Age")

(* lines 77-78: to_numeric raises ValueError on a part that is no number,  *)
(* and my_age['Age'] raises KeyError when no identifier has a second part. *)
NormalizeRaises(ef) ==
    LET my_age == SplitID(ef) IN
    \/ \E i \in 1..NRows(my_age) : ~Parseable(my_age.data["ModelYear"][i])
    \/ "Age" \notin ColSet(my_age)
    \/ /\ "Age" \in ColSet(my_age)
       /\ \E i \in 1..NRows(my_age) : ~Parseable(my_age.data["Age"][i])

(* lines 74-81 *)
Normalize(ef) ==
    LET my_age == SplitID(ef)
        n      == NRows(my_age)
        my     == [i \in 1..n |-> ToNumeric(my_age.data["ModelYear"][i])]
        age    == [i \in 1..n |-> Plus1(ToNumeric(my_age.data["Age"][i]))]
        typed  == [index   |-> my_age.index,
                   columns |-> my_age.columns,
                   data    |-> [c \in ColSet(my_age) |->
                                   IF c = "ModelYear" THEN my
                                   ELSE IF c = "Age" THEN age
                                   ELSE my_age.data[c]]]
    IN Drop(Join(typed, ef), "ID")

(* A slip in line 83: the slice starts one column early, so Age is taken   *)
(* for a metric.                                                           *)
Metrics_FromAge(ef) == SubSeq(ef.columns, 2, Len(ef.columns))

(* line 83: every column after the first two. *)
Metrics(ef) == SubSeq(ef.columns, 3, Len(ef.columns))

(* lines 86-89: the rows of model year pd_minMY and later, index 0..n-1. *)
CurrentRows(df, minMY) ==
    LET sel == Loc(df, [i \in 1..NRows(df) |-> Ge(df.data["ModelYear"][i], minMY)])
    IN [sel EXCEPT !.index = RangeIndex(NRows(sel))]

(* lines 93-95, for one of the two tables *)
RECURSIVE TransferFrom(_, _, _, _)
TransferFrom(safe, ef, ms, i) ==
    IF i > Len(ms) THEN safe
    ELSE TransferFrom(SetItemSeries(safe, ms[i], GetItem(ef, ms[i])), ef, ms, i + 1)

Transfer(safe, ef, ms) == TransferFrom(safe, ef, ms, 1)

(* lines 97-99, for one of the two tables *)
RECURSIVE SetToNaNFrom(_, _)
SetToNaNFrom(safe, i) ==
    IF i > Len(safe_nprm_set_to_zero) THEN safe
    ELSE SetToNaNFrom(SetItemScalar(safe, safe_nprm_set_to_zero[i], NaN), i + 1)

(* A slip in lines 97-99: the columns are set to zero, as the name of the  *)
(* list says, and not to NaN.                                              *)
RECURSIVE SetToZeroFrom(_, _)
SetToZeroFrom(safe, i) ==
    IF i > Len(safe_nprm_set_to_zero) THEN safe
    ELSE SetToZeroFrom(SetItemScalar(safe, safe_nprm_set_to_zero[i], 0), i + 1)

SetToZero(safe) == SetToZeroFrom(safe, 1)

SetToNaN(safe) == SetToNaNFrom(safe, 1)

(* lines 102-103: the rows of the model years before pd_minMY. *)
LegacyRows(df, minMY) ==
    Loc(df, [i \in 1..NRows(df) |-> Lt(df.data["ModelYear"][i], minMY)])

(* A slip in lines 97-105: the null-out comes after the append, and so     *)
(* reaches the legacy rows too.                                            *)
Reassemble_ThenSetToNaN(legacy, current) == SetToNaN(AppendFrame(legacy, current))

(* lines 104-105 *)
Reassemble(legacy, current) == AppendFrame(legacy, current)

---------------------------------------------------------------------------
(* The inputs a run can find on disk. *)

(* The columns of a SAFE NPRM sheet: the two keys, a metric the rename     *)
(* mapping targets, a metric it does not, and an LDT2b/3 metric.           *)
SafeColumns == <<"ModelYear", "Age", "LDV_CO", "LDV_CO2", "LDT2b/3_CO">>

ModelYears == {2009, 2010}

ColumnNo(cols, c) == CHOOSE j \in 1..Len(cols) : cols[j] = c

(* A sheet of n rows: the model years are free, Age numbers the rows, and  *)
(* every other cell holds a number that names its sheet, column and row.   *)
SafeSheet(base, my) ==
    [index   |-> RangeIndex(Len(my)),
     columns |-> SafeColumns,
     data    |-> [c \in Elems(SafeColumns) |->
                     IF c = "ModelYear" THEN my
                     ELSE IF c = "Age" THEN [i \in 1..Len(my) |-> i]
                     ELSE [i \in 1..Len(my) |->
                              base + 10 * ColumnNo(SafeColumns, c) + i]]]

(* The model-year columns a sheet may have, in any order. *)
ModelYearColumns == UNION {[1..n -> ModelYears] : n \in 0..MaxRows}

(* Identifiers of the Vehicle_EFs sheet: three well formed, and one each   *)
(* with three parts, with one part and with a part that is no number.      *)
IdPool ==
    { <<"2", "0", "1", "0", "-", "0">>,
      <<"2", "0", "1", "1", "-", "1">>,
      <<"2", "0", "0", "9", "-", "2">>,
      <<"2", "0", "1", "0", "-", "0", "-", "5">>,
      <<"2", "0", "1", "0">>,
      <<"2", "0", "x", "0", "-", "0">> }

(* The metric columns a Vehicle_EFs sheet may hold besides ID: one the     *)
(* mapping renames, and two that already bear a SAFE NPRM name.            *)
EFColumns == <<"CO_gpm_Car", "LDT2b/3_CO", "LDV_CO2">>

EFColumnChoices ==
    {SelectSeq(EFColumns, LAMBDA c : c \in S) : S \in SUBSET Elems(EFColumns)}

EFSheet(ids, cols) ==
    [index   |-> RangeIndex(Len(ids)),
     columns |-> <<"ID">> \o cols,
     data    |-> [c \in {"ID"} \cup Elems(cols) |->
                     IF c = "ID" THEN ids
                     ELSE [i \in 1..Len(ids) |-> 10 * ColumnNo(EFColumns, c) + i]]]

EFSheets ==
    UNION {{EFSheet(ids, cols) : ids \in [1..n -> IdPool], cols \in EFColumnChoices}
           : n \in 1..MaxEFRows}

(* The outputs folder before the run: absent, or left by an earlier run. *)
Disks == {[dir |-> FALSE, gas |-> "absent", diesel |-> "absent"],
          [dir |-> TRUE, gas |-> "old", diesel |-> "old"]}

---------------------------------------------------------------------------
(* The run. *)

Init ==
    /\ pc = "read"
    /\ wb \in {[gas |-> SafeSheet(100, my), diesel |-> SafeSheet(200, my), ef |-> ef]
                 : my \in ModelYearColumns, ef \in EFSheets}
    /\ disk \in Disks
    /\ gas_safe_nprm = EmptyFrame
    /\ diesel_safe_nprm = EmptyFrame
    /\ emission_factors_pd = EmptyFrame
    /\ pd_minMY = NaN
    /\ metrics = <<>>
    /\ gas_safe = EmptyFrame
    /\ diesel_safe = EmptyFrame

(* lines 66-68 *)
ReadInputs ==
    /\ pc = "read"
    /\ gas_safe_nprm' = wb.gas
    /\ diesel_safe_nprm' = wb.diesel
    /\ emission_factors_pd' = wb.ef
    /\ pc' = "rename"
    /\ UNCHANGED <<wb, disk, pd_minMY, metrics, gas_safe, diesel_safe>>

(* lines 66-68: read_excel raises when a workbook or a sheet is missing. *)
ReadInputsFails ==
    /\ pc = "read"
    /\ pc' = "failed"
    /\ UNCHANGED <<wb, disk, gas_safe_nprm, diesel_safe_nprm, emission_factors_pd,
                   pd_minMY, metrics, gas_safe, diesel_safe>>

(* line 71 *)
RenameColumns ==
    /\ pc = "rename"
    /\ emission_factors_pd' = RenameMetrics(emission_factors_pd)
    /\ pc' = "normalize"
    /\ UNCHANGED <<wb, disk, gas_safe_nprm, diesel_safe_nprm, pd_minMY, metrics,
                   gas_safe, diesel_safe>>

(* lines 74-83 *)
NormalizeID ==
    /\ pc = "normalize"
    /\ ~NormalizeRaises(emission_factors_pd)
    /\ emission_factors_pd' = Normalize(emission_factors_pd)
    /\ pd_minMY' = SeriesMin(emission_factors_pd'.data["ModelYear"])
    /\ metrics' = Metrics(emission_factors_pd')
    /\ pc' = "partition"
    /\ UNCHANGED <<wb, disk, gas_safe_nprm, diesel_safe_nprm, gas_safe, diesel_safe>>

(* lines 77-78: the exception ends the run. *)
NormalizeIDFails ==
    /\ pc = "normalize"
    /\ NormalizeRaises(emission_factors_pd)
    /\ pc' = "failed"
    /\ UNCHANGED <<wb, disk, gas_safe_nprm, diesel_safe_nprm, emission_factors_pd,
                   pd_minMY, metrics, gas_safe, diesel_safe>>

(* lines 86-89 *)
SelectCurrent ==
    /\ pc = "partition"
    /\ gas_safe' = CurrentRows(gas_safe_nprm, pd_minMY)
    /\ diesel_safe' = CurrentRows(diesel_safe_nprm, pd_minMY)
    /\ pc' = "transfer"
    /\ UNCHANGED <<wb, disk, gas_safe_nprm, diesel_safe_nprm, emission_factors_pd,
                   pd_minMY, metrics>>

(* lines 93-95 *)
TransferMetrics ==
    /\ pc = "transfer"
    /\ gas_safe' = Transfer(gas_safe, emission_factors_pd, metrics)
    /\ diesel_safe' = Transfer(diesel_safe, emission_factors_pd, metrics)
    /\ pc' = "nullout"
    /\ UNCHANGED <<wb, disk, gas_safe_nprm, diesel_safe_nprm, emission_factors_pd,
                   pd_minMY, metrics>>

(* lines 97-99 *)
SetMetricsToNaN ==
    /\ pc = "nullout"
    /\ gas_safe' = SetToNaN(gas_safe)
    /\ diesel_safe' = SetToNaN(diesel_safe)
    /\ pc' = "append"
    /\ UNCHANGED <<wb, disk, gas_safe_nprm, diesel_safe_nprm, emission_factors_pd,
                   pd_minMY, metrics>>

(* lines 102-105 *)
AppendToLegacy ==
    /\ pc = "append"
    /\ gas_safe_nprm' = LegacyRows(gas_safe_nprm, pd_minMY)
    /\ diesel_safe_nprm' = LegacyRows(diesel_safe_nprm, pd_minMY)
    /\ gas_safe' = Reassemble(gas_safe_nprm', gas_safe)
    /\ diesel_safe' = Reassemble(diesel_safe_nprm', diesel_safe)
    /\ pc' = "mkdir"
    /\ UNCHANGED <<wb, disk, emission_factors_pd, pd_minMY, metrics>>

(* line 109: mkdir(exist_ok=True) *)
MakeOutputFolder ==
    /\ pc = "mkdir"
    /\ disk' = [disk EXCEPT !.dir = TRUE]
    /\ pc' = "save_gas"
    /\ UNCHANGED <<wb, gas_safe_nprm, diesel_safe_nprm, emission_factors_pd,
                   pd_minMY, metrics, gas_safe, diesel_safe>>

(* line 109: the folder is absent and cannot be made. *)
MakeOutputFolderFails ==
    /\ pc = "mkdir"
    /\ ~disk.dir
    /\ pc' = "failed"
    /\ UNCHANGED <<wb, disk, gas_safe_nprm, diesel_safe_nprm, emission_factors_pd,
                   pd_minMY, metrics, gas_safe, diesel_safe>>

(* line 110 *)
SaveGasoline ==
    /\ pc = "save_gas"
    /\ disk' = [disk EXCEPT !.gas = "written"]
    /\ pc' = "save_diesel"
    /\ UNCHANGED <<wb, gas_safe_nprm, diesel_safe_nprm, emission_factors_pd,
                   pd_minMY, metrics, gas_safe, diesel_safe>>

(* line 110: to_csv raises before the file is opened for writing (the file *)
(* stays as it was) or while it writes (the file is left cut short).       *)
SaveGasolineFails ==
    /\ pc = "save_gas"
    /\ \E left \in {disk.gas, "partial"} : disk' = [disk EXCEPT !.gas = left]
    /\ pc' = "failed"
    /\ UNCHANGED <<wb, gas_safe_nprm, diesel_safe_nprm, emission_factors_pd,
                   pd_minMY, metrics, gas_safe, diesel_safe>>

(* line 111 *)
SaveDiesel ==
    /\ pc = "save_diesel"
    /\ disk' = [disk EXCEPT !.diesel = "written"]
    /\ pc' = "done"
    /\ UNCHANGED <<wb, gas_safe_nprm, diesel_safe_nprm, emission_factors_pd,
                   pd_minMY, metrics, gas_safe, diesel_safe>>

(* line 111: as for the gasoline file. *)
SaveDieselFails ==
    /\ pc = "save_diesel"
    /\ \E left \in {disk.diesel, "partial"} : disk' = [disk EXCEPT !.diesel = left]
    /\ pc' = "failed"
    /\ UNCHANGED <<wb, gas_safe_nprm, diesel_safe_nprm, emission_factors_pd,
                   pd_minMY, metrics, gas_safe, diesel_safe>>

Next ==
    \/ ReadInputs
    \/ ReadInputsFails
    \/ RenameColumns
    \/ NormalizeID
    \/ NormalizeIDFails
    \/ SelectCurrent
    \/ TransferMetrics
    \/ SetMetricsToNaN
    \/ AppendToLegacy
    \/ MakeOutputFolder
    \/ MakeOutputFolderFails
    \/ SaveGasoline
    \/ SaveGasolineFails
    \/ SaveDiesel
    \/ SaveDieselFails

Spec == Init /\ [][Next]_vars

---------------------------------------------------------------------------
(* Vocabulary of the properties. *)

Fuels == {"gas", "diesel"}

(* The table main() holds for a fuel in gas_safe / diesel_safe. *)
Safe(f) == IF f = "gas" THEN gas_safe ELSE diesel_safe

(* The `current` and `legacy` selections of a fuel's sheet as it was read. *)
CurrentOf(f) == CurrentRows(wb[f], pd_minMY)
LegacyOf(f) == LegacyRows(wb[f], pd_minMY)

(* The run has passed the transfer of the metrics (lines 93-95). *)
Transferred == pc = "nullout"

(* The run has passed transfer and null-out, and not yet the append. *)
Overwritten == pc = "append"

(* gas_safe and diesel_safe hold the final output tables. *)
OutputBuilt == pc \in {"mkdir", "save_gas", "save_diesel", "done"}

(* An identifier "<year>-<age>": exactly two parts, each a number. *)
WellFormedId(id) ==
    LET parts == Split(id) IN
    /\ Len(parts) = 2
    /\ \A j \in 1..2 : parts[j] # <<>> /\ \A i \in 1..Len(parts[j]) : parts[j][i] \in Digits

WellFormedIds == \A i \in 1..NRows(wb.ef) : WellFormedId(wb.ef.data["ID"][i])

(* The names the rename mapping maps to, and the null-out list as a set. *)
RenameTargets == {header_dict[i][2] : i \in 1..Len(header_dict)}
NullOutColumns == Elems(safe_nprm_set_to_zero)

(* The columns the override table holds besides its two keys. *)
OverrideMetrics == ColSet(emission_factors_pd) \ {"ModelYear", "Age"}

(* Both sheets have rows of the threshold year or later. *)
CurrentNonEmpty == \A f \in Fuels : NRows(CurrentOf(f)) >= 1

(* An ordinary run: well-formed identifiers, a metric to transfer, and as  *)
(* many override rows as each `current` partition has rows.                *)
OrdinaryInputs ==
    /\ WellFormedIds
    /\ CurrentNonEmpty
    /\ OverrideMetrics # {}
    /\ \A f \in Fuels : NRows(CurrentOf(f)) = NRows(emission_factors_pd)

(* The keys (ModelYear, Age) of the rows of a table, in row order. *)
Keys(df) == [k \in 1..NRows(df) |-> <<df.data["ModelYear"][k], df.data["Age"][k]>>]

---------------------------------------------------------------------------
(* C1: after the transfer, for each fuel, every metric column that the     *)
(* override table and `current` share holds, at every row position k of    *)
(* `current`, the override table's value at position k.  Stated for runs   *)
(* on well-formed identifiers with a non-empty `current`.                  *)
C1_OverwriteIsPositional ==
    (Transferred /\ WellFormedIds /\ CurrentNonEmpty) =>
        \A f \in Fuels :
            \A c \in OverrideMetrics \cap ColSet(CurrentOf(f)) :
                \A k \in 1..NRows(CurrentOf(f)) :
                    /\ k <= NRows(emission_factors_pd)
                    /\ Safe(f).data[c][k] = emission_factors_pd.data[c][k]

(* C2: a run in which the override table and a `current` partition differ  *)
(* in row count never gets past the transfer: it fails instead.  Stated    *)
(* for runs on well-formed identifiers with a non-empty `current` and a    *)
(* metric to transfer.                                                     *)
C2_RowCountMismatchFails ==
    (pc \in {"nullout", "append", "mkdir", "save_gas", "save_diesel", "done"}
        /\ WellFormedIds /\ CurrentNonEmpty /\ OverrideMetrics # {}) =>
        \A f \in Fuels : NRows(CurrentOf(f)) = NRows(emission_factors_pd)

(* C3: in the final output of each fuel, every row after the legacy rows   *)
(* holds NaN in every column of the null-out list.                         *)
C3_NullOutComplete ==
    OutputBuilt =>
        \A f \in Fuels :
            \A c \in NullOutColumns :
                /\ c \in ColSet(Safe(f))
                /\ \A k \in (NRows(LegacyOf(f)) + 1)..NRows(Safe(f)) :
                       Safe(f).data[c][k] = NaN

(* C3 witness: an output whose `current` rows were given override values   *)
(* in a null-out column before the null-out.                               *)
C3_Witness ==
    /\ OutputBuilt
    /\ WellFormedIds
    /\ "LDT2b/3_CO" \in OverrideMetrics
    /\ NRows(CurrentOf("gas")) >= 1
    /\ NRows(LegacyOf("gas")) >= 1

(* C4: every sheet row of a model year before the threshold is a row of    *)
(* the final output with every sheet column unchanged.                     *)
C4_LegacyPreserved ==
    OutputBuilt =>
        \A f \in Fuels :
            \A i \in 1..NRows(wb[f]) :
                Lt(wb[f].data["ModelYear"][i], pd_minMY) =>
                    \E k \in 1..NRows(Safe(f)) :
                        \A c \in ColSet(wb[f]) : Safe(f).data[c][k] = wb[f].data[c][i]

(* C4 witness: an output built from legacy rows and from current rows that *)
(* were overwritten in a mapped column and nulled.                         *)
C4_Witness ==
    /\ OutputBuilt
    /\ WellFormedIds
    /\ "LDV_CO" \in OverrideMetrics
    /\ NRows(LegacyOf("diesel")) >= 1
    /\ NRows(CurrentOf("diesel")) >= 1

(* C5 as amended: transfer and null-out leave every row of `current`       *)
(* unchanged in every column that is neither one of the transferred        *)
(* metrics (every override column but ModelYear and Age, renamed or not)   *)
(* nor in the null-out list.                                               *)
C5_UntransferredColumnsUntouched ==
    Overwritten =>
        \A f \in Fuels :
            \A c \in ColSet(CurrentOf(f)) \ (OverrideMetrics \cup NullOutColumns) :
                \A k \in 1..NRows(CurrentOf(f)) :
                    Safe(f).data[c][k] = CurrentOf(f).data[c][k]

(* C5 witness: `current` has rows, a metric was transferred, and a mapped  *)
(* column of `current` was not among the transferred ones.                 *)
C5_Witness ==
    /\ Overwritten
    /\ WellFormedIds
    /\ NRows(CurrentOf("gas")) >= 1
    /\ "LDV_CO2" \in OverrideMetrics
    /\ "LDV_CO" \notin OverrideMetrics

(* C5 as claimed: transfer and null-out leave every row of `current`       *)
(* unchanged in every column that is neither a target of the rename        *)
(* mapping nor in the null-out list, whatever columns the override has.    *)
C5_UnmappedColumnsUntouched ==
    (Overwritten /\ WellFormedIds) =>
        \A f \in Fuels :
            \A c \in ColSet(CurrentOf(f)) \ (RenameTargets \cup NullOutColumns) :
                \A k \in 1..NRows(CurrentOf(f)) :
                    Safe(f).data[c][k] = CurrentOf(f).data[c][k]

(* C6: every sheet row is in exactly one of the two selections, and the    *)
(* final output has as many rows as the sheet.  Stated for runs on         *)
(* well-formed identifiers and sheets that have rows.                      *)
C6_PartitionComplete ==
    (OutputBuilt /\ WellFormedIds /\ NRows(wb.gas) >= 1) =>
        \A f \in Fuels :
            /\ \A i \in 1..NRows(wb[f]) :
                   Lt(wb[f].data["ModelYear"][i], pd_minMY)
                       # Ge(wb[f].data["ModelYear"][i], pd_minMY)
            /\ NRows(LegacyOf(f)) + NRows(CurrentOf(f)) = NRows(wb[f])
            /\ NRows(Safe(f)) = NRows(wb[f])

(* C7: the rows of the final output are the legacy rows of the sheet in    *)
(* sheet order, then the current rows of the sheet in sheet order.  Stated  *)
(* for runs on well-formed identifiers and sheets that have rows.          *)
C7_OrderPreserved ==
    (OutputBuilt /\ WellFormedIds /\ NRows(wb.gas) >= 1) =>
        \A f \in Fuels : Keys(Safe(f)) = Keys(LegacyOf(f)) \o Keys(CurrentOf(f))

(* C8: a run gets past the normalization only when every identifier of    *)
(* the override sheet has exactly two parts, each a number.                *)
C8_MalformedIdFails ==
    (pc \notin {"read", "rename", "normalize", "failed"}) => WellFormedIds

(* C9: a run that failed has written neither output file, in whole or in   *)
(* part.  Stated for runs on ordinary inputs, where only the file system   *)
(* can fail.                                                               *)
C9_AllOrNothing ==
    (pc = "failed" /\ OrdinaryInputs) =>
        /\ disk.gas \notin {"written", "partial"}
        /\ disk.diesel \notin {"written", "partial"}

(* C10: when no sheet row is of the threshold year or later, `current`     *)
(* still has no rows after transfer and null-out, and the final output has *)
(* the rows of the sheet and no more.  Stated for runs on well-formed      *)
(* identifiers and sheets that have rows.                                  *)
C10_EmptyCurrentIsNoOp ==
    \A f \in Fuels :
        (WellFormedIds /\ NRows(wb[f]) >= 1 /\ NRows(CurrentOf(f)) = 0) =>
            /\ pc \in {"nullout", "append"} => NRows(Safe(f)) = 0
            /\ OutputBuilt => Keys(Safe(f)) = Keys(wb[f])

====
